---- MODULE Spec2Model ----
(***************************************************************************)
(* Model of qemu_wms.py: the diagnostic-port listener (QEmuListener), the  *)
(* board state (WmsBoard) and the GUI handlers (WmsGui) that connect them. *)
(*                                                                         *)
(* Bytes are modelled as strings: a printable ASCII byte is the one-       *)
(* character string of that character, 0xFF is "0xFF" and the ASCII file   *)
(* separator 0x1C is "0x1C".  A decoded str is the same sequence.          *)
(***************************************************************************)
EXTENDS Integers, Sequences, FiniteSets, TLC

VARIABLES
    recv_buffer,   \* QEmuListener.recv_buffer: the carry of unterminated bytes
    lpc,           \* listener thread: "idle" (not started), "read", "dispatch", "crashed", "exited"
    replies,       \* listener thread: tokens of the current read still to decode
    msgq,          \* Tk event queue of <<message>> events (gui.event)
    afters,        \* Tk timer queue of pending do_warning calls (gui.warning)
    listener,      \* WmsGui.listener is set (a QEmuListener exists)
    dialing,       \* a do_connect call is scheduled (root.after(50, do_connect))
    timer,         \* an on_timer_running call is scheduled (root.after(POLL, ...))
    stopping,      \* WmsGui.stopping
    button,        \* WmsGui.button: the name of the button under the pointer, or "none"
    connecting,    \* WmsGui.connecting
    warn_field,    \* WmsGui.warn_field['text'] without its time stamp
    warn_ticks,    \* WmsGui.warn_ticks
    gpiod,         \* WmsGui.gpiod check box
    usart3,        \* WmsGui.usart3 check box
    serial,        \* WmsGui.serial is set (a QEmuSerial exists)
    idr,           \* the value shown by WmsGui.idr (WmsGui.pins shows its bits 8..14)
    latch,         \* WmsBoard.latch
    latched,       \* WmsBoard.latched
    sseg,          \* WmsBoard.sseg
    motor,         \* WmsBoard.motor
    sprite,        \* WmsBoard.sprite
    direction,     \* WmsBoard.direction
    wrote,         \* messages written to the diagnostic socket in the latest step
    rx,            \* every byte the diagnostic socket has delivered so far
    got,           \* every token QEmuListener.read has returned so far
    warn_age,      \* poll ticks run since the displayed warning was set (-1: none set)
    writing        \* the call of QEmuListener.write or QEmuSerial.write in progress

listenerVars == <<recv_buffer, lpc, replies>>
channelVars == <<msgq, afters>>
guiVars == <<listener, dialing, timer, stopping, button, connecting, gpiod, usart3, serial, idr>>
warnVars == <<warn_field, warn_ticks, warn_age>>
boardVars == <<latch, latched, sseg, motor, sprite, direction>>
traceVars == <<rx, got>>

vars == <<listenerVars, channelVars, guiVars, warnVars, boardVars, wrote, traceVars, writing>>

----------------------------------------------------------------------------
(* Bounds of the model *)

MaxWire == 4
MaxQueue == 1
MaxAfters == 1
MaxTicks == 52

\* the module constants POLL and DISPLAY_WARN, in ms
POLL == 100
DISPLAY_WARN == 5000

----------------------------------------------------------------------------
(* QEmuListener.read *)

\* bytes.isspace(): the ASCII whitespace bytes
IsSpaceByte(b) == b \in {" ", "\t", "\n", "\r"}

\* str.split() with no argument: str.isspace(), which also holds for 0x1C..0x1F
IsSpaceChar(c) == c \in {" ", "\t", "\n", "\r", "0x1C"}

\* bytes.decode('ascii') accepts the bytes below 0x80
IsAscii(b) == b # "0xFF"

Tail3(data) == IF Len(data) <= 3 THEN <<>> ELSE SubSeq(data, 4, Len(data))

\* while data and data[0] == 0xff: data = data[3:]
RECURSIVE StripEscape(_)
StripEscape(data) ==
    IF data # <<>> /\ data[1] = "0xFF" THEN StripEscape(Tail3(data)) ELSE data

\* the carry loop without its test for whitespace: every byte goes to the carry
RECURSIVE MoveTail_All(_, _)
MoveTail_All(data, buffer) ==
    IF data # <<>>
    THEN MoveTail_All(SubSeq(data, 1, Len(data) - 1), <<data[Len(data)]>> \o buffer)
    ELSE [data |-> data, buffer |-> buffer]

\* while data and not data[-1:].isspace(): self.recv_buffer.insert(0, data.pop())
RECURSIVE MoveTail(_, _)
MoveTail(data, buffer) ==
    IF data # <<>> /\ ~IsSpaceByte(data[Len(data)])
    THEN MoveTail(SubSeq(data, 1, Len(data) - 1), <<data[Len(data)]>> \o buffer)
    ELSE [data |-> data, buffer |-> buffer]

\* One call of QEmuListener.read that receives `chunk` with carry `buffer`:
\* raised is TRUE when decode raises (ValueError -> UserWarning)
ReadResult(buffer, chunk) ==
    LET moved == MoveTail(StripEscape(buffer \o chunk), <<>>)
    IN  [raised |-> \E i \in 1..Len(moved.data) : ~IsAscii(moved.data[i]),
         text   |-> moved.data,
         buffer |-> moved.buffer]

\* str.split(): the maximal runs of non-whitespace characters
RECURSIVE SplitFrom(_, _, _)
SplitFrom(text, word, acc) ==
    IF text = <<>> THEN (IF word = <<>> THEN acc ELSE Append(acc, word))
    ELSE IF IsSpaceChar(Head(text))
         THEN SplitFrom(Tail(text), <<>>, IF word = <<>> THEN acc ELSE Append(acc, word))
         ELSE SplitFrom(Tail(text), Append(word, Head(text)), acc)

Split(text) == SplitFrom(text, <<>>, <<>>)

\* the tokens one read hands to the for loop of listen (none when read raises)
ReadReplies(r) == IF r.raised THEN <<>> ELSE Split(r.text)

----------------------------------------------------------------------------
(* QEmuListener.listen: decoding one reply *)

HexDigits == <<"0", "1", "2", "3", "4", "5", "6", "7", "8", "9",
               "a", "b", "c", "d", "e", "f">>

UpperHexDigits == <<"A", "B", "C", "D", "E", "F">>

IsHexDigit(c) ==
    \/ \E i \in 1..Len(HexDigits) : HexDigits[i] = c
    \/ \E i \in 1..Len(UpperHexDigits) : UpperHexDigits[i] = c

HexDigitValue(c) ==
    IF \E i \in 1..Len(HexDigits) : HexDigits[i] = c
    THEN (CHOOSE i \in 1..Len(HexDigits) : HexDigits[i] = c) - 1
    ELSE (CHOOSE i \in 1..Len(UpperHexDigits) : UpperHexDigits[i] = c) + 9

RECURSIVE HexDigitsValue(_, _)
HexDigitsValue(s, acc) ==
    IF s = <<>> THEN acc ELSE HexDigitsValue(Tail(s), 16 * acc + HexDigitValue(Head(s)))

\* int(s, 16) for a str of the model's characters: an optional sign and then
\* one or more hexadecimal digits; anything else raises ValueError
PyIntHex(s) ==
    LET signed == s # <<>> /\ Head(s) \in {"+", "-"}
        digits == IF signed THEN Tail(s) ELSE s
        ok     == digits # <<>> /\ \A i \in 1..Len(digits) : IsHexDigit(digits[i])
        mag    == IF ok THEN HexDigitsValue(digits, 0) ELSE 0
    IN  [ok |-> ok, value |-> IF signed /\ Head(s) = "-" THEN 0 - mag ELSE mag]

\* reply.partition('?/'): the index of the first "?/" in reply, 0 when there is none
SepIndex(reply) ==
    LET hits == {i \in 1..(Len(reply) - 1) : reply[i] = "?" /\ reply[i + 1] = "/"}
    IN  IF hits = {} THEN 0 ELSE CHOOSE i \in hits : \A j \in hits : i <= j

\* REPLY_MAP with the tags of '=d0' and '=d4' exchanged
REPLY_MAP_Exchanged ==
    [cmd \in {<<"=", "m", "4", "0", "0", "2", "3", "8", "3", "0">>,
              <<"=", "m", "4", "0", "0", "2", "3", "8", "4", "0">>,
              <<"=", "d", "0">>, <<"=", "d", "4">>,
              <<"=", "u", "0">>, <<"=", "u", "3">>} |->
        CASE cmd = <<"=", "m", "4", "0", "0", "2", "3", "8", "3", "0">> -> "gpiod_enabled"
          [] cmd = <<"=", "m", "4", "0", "0", "2", "3", "8", "4", "0">> -> "usart3_enabled"
          [] cmd = <<"=", "d", "0">> -> "idr"
          [] cmd = <<"=", "d", "4">> -> "moder"
          [] cmd = <<"=", "u", "0">> -> "sr"
          [] cmd = <<"=", "u", "3">> -> "cr1"]

REPLY_MAP ==
    [cmd \in {<<"=", "m", "4", "0", "0", "2", "3", "8", "3", "0">>,
              <<"=", "m", "4", "0", "0", "2", "3", "8", "4", "0">>,
              <<"=", "d", "0">>, <<"=", "d", "4">>,
              <<"=", "u", "0">>, <<"=", "u", "3">>} |->
        CASE cmd = <<"=", "m", "4", "0", "0", "2", "3", "8", "3", "0">> -> "gpiod_enabled"
          [] cmd = <<"=", "m", "4", "0", "0", "2", "3", "8", "4", "0">> -> "usart3_enabled"
          [] cmd = <<"=", "d", "0">> -> "moder"
          [] cmd = <<"=", "d", "4">> -> "idr"
          [] cmd = <<"=", "u", "0">> -> "sr"
          [] cmd = <<"=", "u", "3">> -> "cr1"]

Raise == [kind |-> "raise"]
Ignore == [kind |-> "none"]
Warn(text) == [kind |-> "warning", text |-> text]
Event(tag, value) == [kind |-> "event", tag |-> tag, value |-> value]

\* PinEvent reading the character at offset 1 instead of offset 2
PinEvent_Offset1(tag, reply) ==
    IF Len(reply) < 2 \/ ~IsHexDigit(reply[2]) THEN [kind |-> "raise"]
    ELSE [kind |-> "event", tag |-> tag, value |-> HexDigitValue(reply[2])]

\* int(reply[2], 16): IndexError for a reply shorter than 3, ValueError for a non-digit
PinEvent(tag, reply) ==
    IF Len(reply) < 3 \/ ~IsHexDigit(reply[3]) THEN Raise
    ELSE Event(tag, HexDigitValue(reply[3]))

MemoryEvent(reply) ==
    LET at    == SepIndex(reply)
        cmd   == SubSeq(reply, 1, at - 1)
        value == PyIntHex(SubSeq(reply, at + 2, Len(reply)))
    IN  IF at = 0 THEN Warn("Memory query missing ?/ separator")
        ELSE IF cmd \notin DOMAIN REPLY_MAP THEN Warn("Unknown command prefix in response")
        ELSE IF ~value.ok THEN Raise
        ELSE Event(REPLY_MAP[cmd], value.value)

\* the body of the for loop of listen for one reply (a reply is never empty)
Decode(reply) ==
    IF Head(reply) = "?" THEN Warn("Invalid command response")
    ELSE IF Head(reply) = "-" THEN PinEvent("pin_low", reply)
    ELSE IF Head(reply) = "+" THEN PinEvent("pin_high", reply)
    ELSE IF Head(reply) = "=" THEN MemoryEvent(reply)
    ELSE Ignore

----------------------------------------------------------------------------
(* Board.buttons and WmsBoard *)

\* Board.buttons with the reset command sent at the press
Buttons_ResetOnPress ==
    << [name |-> "reset",  pin |-> -1, style |-> "plain", down |-> "reset ", up |-> ""],
       [name |-> "door",   pin |-> 0,  style |-> "door",  down |-> "D0L0 ", up |-> "D0d0 "],
       [name |-> "PS1",    pin |-> 1,  style |-> "latch", down |-> "D0L1 ", up |-> "D0d1 "],
       [name |-> "PS2",    pin |-> 2,  style |-> "latch", down |-> "D0L2 ", up |-> "D0d2 "],
       [name |-> "PS3",    pin |-> 3,  style |-> "latch", down |-> "D0L3 ", up |-> "D0d3 "],
       [name |-> "cancel", pin |-> 4,  style |-> "latch", down |-> "D0L4 ", up |-> "D0d4 "],
       [name |-> "accept", pin |-> 5,  style |-> "latch", down |-> "D0L5 ", up |-> "D0d5 "],
       [name |-> "motor",  pin |-> 6,  style |-> "plain", down |-> "D0L6 ", up |-> "D0d6 "] >>

\* Button(name, pin, style, down, up, ...); pin None is written -1
Buttons ==
    << [name |-> "reset",  pin |-> -1, style |-> "plain", down |-> "",      up |-> "reset "],
       [name |-> "door",   pin |-> 0,  style |-> "door",  down |-> "D0L0 ", up |-> "D0d0 "],
       [name |-> "PS1",    pin |-> 1,  style |-> "latch", down |-> "D0L1 ", up |-> "D0d1 "],
       [name |-> "PS2",    pin |-> 2,  style |-> "latch", down |-> "D0L2 ", up |-> "D0d2 "],
       [name |-> "PS3",    pin |-> 3,  style |-> "latch", down |-> "D0L3 ", up |-> "D0d3 "],
       [name |-> "cancel", pin |-> 4,  style |-> "latch", down |-> "D0L4 ", up |-> "D0d4 "],
       [name |-> "accept", pin |-> 5,  style |-> "latch", down |-> "D0L5 ", up |-> "D0d5 "],
       [name |-> "motor",  pin |-> 6,  style |-> "plain", down |-> "D0L6 ", up |-> "D0d6 "] >>

ButtonNames == {Buttons[i].name : i \in 1..Len(Buttons)}

ButtonNamed(name) == Buttons[CHOOSE i \in 1..Len(Buttons) : Buttons[i].name = name]

\* (value >> n) & 1
Bit(value, n) == (value \div (2 ^ n)) % 2

\* value | (1 << n)  and  value & ~(1 << n)
SetBit(value, n) == IF Bit(value, n) = 1 THEN value ELSE value + 2 ^ n
ClearBit(value, n) == IF Bit(value, n) = 1 THEN value - 2 ^ n ELSE value

\* WmsBoard.__init__; out collects what a handler writes to the diagnostic socket
NewBoard ==
    [latch |-> FALSE, latched |-> [i \in 0..(Len(Buttons) - 1) |-> FALSE], sseg |-> 0,
     motor |-> FALSE, sprite |-> 0, direction |-> 0, out |-> <<>>]

\* qemu.write(message) by a handler working on board b
Write(b, message) == [b EXCEPT !.out = Append(@, message)]

\* the loop of update_device for pin 14 going low that leaves the latched flags
RECURSIVE ReleaseLatches_KeepsFlags(_, _, _)
ReleaseLatches_KeepsFlags(b, i, qemu) ==
    IF i > Len(Buttons) THEN b
    ELSE IF Buttons[i].style # "latch" THEN ReleaseLatches_KeepsFlags(b, i + 1, qemu)
    ELSE ReleaseLatches_KeepsFlags(IF qemu THEN Write(b, Buttons[i].up) ELSE b, i + 1, qemu)

\* the loop over Board.buttons of update_device for pin 14 going low, from index i
RECURSIVE ReleaseLatches(_, _, _)
ReleaseLatches(b, i, qemu) ==
    IF i > Len(Buttons) THEN b
    ELSE IF Buttons[i].style # "latch" THEN ReleaseLatches(b, i + 1, qemu)
    ELSE LET cleared == [b EXCEPT !.latched[Buttons[i].pin] = FALSE]
         IN  ReleaseLatches(IF qemu THEN Write(cleared, Buttons[i].up) ELSE cleared,
                            i + 1, qemu)

\* update_device that sets the segment bit whatever the level
update_device_SetsOnly(b, pin, level, qemu) ==
    IF 8 <= pin /\ pin <= 11
    THEN [b EXCEPT !.sseg = SetBit(@, pin - 8)]
    ELSE IF pin = 12 THEN [b EXCEPT !.motor = (level # 0)]
    ELSE IF pin = 13 THEN [b EXCEPT !.direction = level]
    ELSE IF pin = 14
         THEN LET set == [b EXCEPT !.latch = (level # 0)]
              IN  IF ~set.latch THEN ReleaseLatches(set, 1, qemu) ELSE set
    ELSE b

\* WmsBoard.update_device(pin, level, qemu); qemu is TRUE for a listener, FALSE for None
update_device(b, pin, level, qemu) ==
    IF 8 <= pin /\ pin <= 11
    THEN [b EXCEPT !.sseg = IF level # 0 THEN SetBit(@, pin - 8) ELSE ClearBit(@, pin - 8)]
    ELSE IF pin = 12 THEN [b EXCEPT !.motor = (level # 0)]
    ELSE IF pin = 13 THEN [b EXCEPT !.direction = level]
    ELSE IF pin = 14
         THEN LET set == [b EXCEPT !.latch = (level # 0)]
              IN  IF ~set.latch THEN ReleaseLatches(set, 1, qemu) ELSE set
    ELSE b

\* WmsBoard.animate
animate(b) ==
    IF b.motor THEN [b EXCEPT !.sprite = (@ + 1) % 3] ELSE b

\* button_down whose door branch does not return when the door is open
button_down_DoorResends(b, btn, qemu) ==
    LET pressed(nb) == IF qemu /\ btn.down # "" THEN Write(nb, btn.down) ELSE nb
    IN  IF btn.style = "latch"
        THEN IF b.latch /\ b.latched[btn.pin] THEN b
             ELSE pressed([b EXCEPT !.latched[btn.pin] = b.latch])
        ELSE IF btn.style = "door"
        THEN pressed([b EXCEPT !.latched[btn.pin] = ~b.latched[btn.pin]])
        ELSE pressed(b)

\* button_down whose door branch needs the latch to open the door
button_down_DoorNeedsLatch(b, btn, qemu) ==
    LET pressed(nb) == IF qemu /\ btn.down # "" THEN Write(nb, btn.down) ELSE nb
    IN  IF btn.style = "latch"
        THEN IF b.latch /\ b.latched[btn.pin] THEN b
             ELSE pressed([b EXCEPT !.latched[btn.pin] = b.latch])
        ELSE IF btn.style = "door"
        THEN IF b.latched[btn.pin] THEN [b EXCEPT !.latched[btn.pin] = FALSE]
             ELSE pressed([b EXCEPT !.latched[btn.pin] = b.latch])
        ELSE pressed(b)

\* WmsBoard.button_down(button, qemu)
button_down(b, btn, qemu) ==
    LET pressed(nb) == IF qemu /\ btn.down # "" THEN Write(nb, btn.down) ELSE nb
    IN  IF btn.style = "latch"
        THEN IF b.latch /\ b.latched[btn.pin] THEN b
             ELSE pressed([b EXCEPT !.latched[btn.pin] = b.latch])
        ELSE IF btn.style = "door"
        THEN IF b.latched[btn.pin] THEN [b EXCEPT !.latched[btn.pin] = FALSE]
             ELSE pressed([b EXCEPT !.latched[btn.pin] = TRUE])
        ELSE pressed(b)

\* button_up that does not hold a latched button down
button_up_NoLatchCheck(b, btn, qemu) ==
    LET released == IF qemu /\ btn.up # "" THEN Write(b, btn.up) ELSE b
    IN  IF btn.style = "door" /\ b.latched[btn.pin] THEN b ELSE released

\* WmsBoard.button_up(button, qemu)
button_up(b, btn, qemu) ==
    LET released == IF qemu /\ btn.up # "" THEN Write(b, btn.up) ELSE b
    IN  IF btn.style = "latch" /\ b.latch /\ b.latched[btn.pin] THEN b
        ELSE IF btn.style = "door" /\ b.latched[btn.pin] THEN b
        ELSE released

----------------------------------------------------------------------------
(* WmsGui.on_message: the resync pass of the first idr event *)

\* for pin in range(8, 15): if (value >> pin) & 1: update_device(pin, 1, self.listener)
RECURSIVE ResyncPins(_, _, _, _)
ResyncPins(b, pin, value, qemu) ==
    IF pin > 14 THEN b
    ELSE ResyncPins(IF Bit(value, pin) = 1 THEN update_device(b, pin, 1, qemu) ELSE b,
                    pin + 1, value, qemu)

\* the button loop of the resync pass handing the listener to button_down and button_up
RECURSIVE ResyncButtons_Writes(_, _, _)
ResyncButtons_Writes(b, i, value) ==
    IF i > Len(Buttons) THEN b
    ELSE IF Buttons[i].pin = -1 \/ Bit(value, Buttons[i].pin) = 0
         THEN ResyncButtons_Writes(b, i + 1, value)
    ELSE ResyncButtons_Writes(button_up(button_down(b, Buttons[i], TRUE), Buttons[i], TRUE),
                              i + 1, value)

\* for button in Board.buttons: ... button_down(button, None); button_up(button, None)
RECURSIVE ResyncButtons(_, _, _)
ResyncButtons(b, i, value) ==
    IF i > Len(Buttons) THEN b
    ELSE IF Buttons[i].pin = -1 \/ Bit(value, Buttons[i].pin) = 0
         THEN ResyncButtons(b, i + 1, value)
    ELSE ResyncButtons(button_up(button_down(b, Buttons[i], FALSE), Buttons[i], FALSE),
                       i + 1, value)

\* the resync pass with its two loops in the other order
Resync_ButtonsFirst(b, value, qemu) == ResyncPins(ResyncButtons(b, 1, value), 8, value, qemu)

Resync(b, value, qemu) == ResyncButtons(ResyncPins(b, 8, value, qemu), 1, value)

----------------------------------------------------------------------------
(* State of the program after WmsGui.__init__ *)

Board ==
    [latch |-> latch, latched |-> latched, sseg |-> sseg, motor |-> motor,
     sprite |-> sprite, direction |-> direction, out |-> <<>>]

\* no call of write is in progress
NoWrite == [pc |-> "idle", conn |-> "none", message |-> <<>>, total |-> 0]

\* the board and what the handler wrote become the next state
SetBoard(b) ==
    /\ latch' = b.latch
    /\ latched' = b.latched
    /\ sseg' = b.sseg
    /\ motor' = b.motor
    /\ sprite' = b.sprite
    /\ direction' = b.direction
    /\ wrote' = b.out

Init ==
    /\ recv_buffer = <<>>
    /\ lpc = "idle"
    /\ replies = <<>>
    /\ msgq = <<>>
    /\ afters = <<"Use Connect or Connect+Serial to attach to QEMU/WMS">>
    /\ listener = FALSE
    /\ dialing = FALSE
    /\ timer = FALSE
    /\ stopping = FALSE
    /\ button = "none"
    /\ connecting = TRUE
    /\ warn_field = ""
    /\ warn_ticks = 0
    /\ gpiod = FALSE
    /\ usart3 = FALSE
    /\ serial = FALSE
    /\ idr = 0
    /\ latch = NewBoard.latch
    /\ latched = NewBoard.latched
    /\ sseg = NewBoard.sseg
    /\ motor = NewBoard.motor
    /\ sprite = NewBoard.sprite
    /\ direction = NewBoard.direction
    /\ wrote = <<>>
    /\ rx = <<>>
    /\ got = <<>>
    /\ warn_age = -1
    /\ writing = NoWrite

----------------------------------------------------------------------------
(* The listener thread: QEmuListener.listen *)

\* gui.warning(msg): root.after(10, self.do_warning, msg)
Warning(msg) == afters' = Append(afters, msg)

\* one self.read() that receives chunk, and the split of what it returns
ListenRead(chunk) ==
    /\ lpc = "listen" /\ replies = <<>>
    /\ LET r == ReadResult(recv_buffer, chunk)
       IN  /\ recv_buffer' = r.buffer
           /\ replies' = ReadReplies(r)
           /\ IF r.raised
              THEN Len(afters) < MaxAfters /\ Warning("Warning: QEMU receiver timeout")
              ELSE UNCHANGED afters
    /\ wrote' = <<>>
    /\ UNCHANGED <<lpc, msgq, guiVars, warnVars, boardVars, writing>>

\* self.socket.recv raises socket.timeout: read raises UserWarning before it
\* touches recv_buffer
ListenTimeout ==
    /\ lpc = "listen" /\ replies = <<>>
    /\ Len(afters) < MaxAfters
    /\ Warning("Warning: QEMU receiver timeout")
    /\ wrote' = <<>>
    /\ UNCHANGED <<listenerVars, msgq, guiVars, warnVars, boardVars, traceVars, writing>>

\* the for loop of listen applying a pin reply to the board itself
ListenDispatch_UpdatesBoard ==
    /\ lpc = "listen" /\ replies # <<>>
    /\ LET d   == Decode(Head(replies))
           pin == d.kind = "event" /\ d.tag \in {"pin_low", "pin_high"}
       IN  /\ IF d.kind = "event" /\ ~pin
              THEN Len(msgq) < MaxQueue /\ msgq' = Append(msgq, [tag |-> d.tag, value |-> d.value])
              ELSE UNCHANGED msgq
           /\ IF d.kind = "warning"
              THEN Len(afters) < MaxAfters /\ Warning(d.text)
              ELSE UNCHANGED afters
           /\ IF d.kind = "raise"
              THEN lpc' = "crashed" /\ replies' = <<>>
              ELSE lpc' = lpc /\ replies' = Tail(replies)
           /\ SetBoard(IF pin
                       THEN update_device(Board, d.value, IF d.tag = "pin_high" THEN 1 ELSE 0,
                                          listener)
                       ELSE Board)
    /\ UNCHANGED <<recv_buffer, guiVars, warnVars, traceVars, writing>>

\* one pass of the for loop: the exceptions listen does not catch end the thread
ListenDispatch ==
    /\ lpc = "listen" /\ replies # <<>>
    /\ LET d == Decode(Head(replies))
       IN  /\ IF d.kind = "event"
              THEN Len(msgq) < MaxQueue /\ msgq' = Append(msgq, [tag |-> d.tag, value |-> d.value])
              ELSE UNCHANGED msgq
           /\ IF d.kind = "warning"
              THEN Len(afters) < MaxAfters /\ Warning(d.text)
              ELSE UNCHANGED afters
           /\ IF d.kind = "raise"
              THEN lpc' = "crashed" /\ replies' = <<>>
              ELSE lpc' = lpc /\ replies' = Tail(replies)
    /\ wrote' = <<>>
    /\ UNCHANGED <<recv_buffer, guiVars, warnVars, boardVars, traceVars, writing>>

----------------------------------------------------------------------------
(* The Tk main loop: WmsGui handlers *)

\* WmsGui.do_warning(value)
do_warning(value) ==
    IF value # ""
    THEN warn_field' = value /\ warn_ticks' = POLL
    ELSE warn_field' = "" /\ warn_ticks' = 0

\* the timer set by gui.warning fires
DoWarning ==
    /\ afters # <<>>
    /\ do_warning(Head(afters))
    /\ afters' = Tail(afters)
    /\ warn_age' = IF Head(afters) # "" THEN 0 ELSE -1
    /\ wrote' = <<>>
    /\ UNCHANGED <<listenerVars, msgq, guiVars, boardVars, traceVars, writing>>

\* WmsGui.on_move with the pointer over button name ("none": over no button)
OnMove(name) ==
    /\ button # name
    /\ button' = name
    /\ wrote' = <<>>
    /\ UNCHANGED <<listenerVars, channelVars, warnVars, boardVars, traceVars, writing>>
    /\ UNCHANGED <<listener, dialing, timer, stopping, connecting, gpiod, usart3, serial, idr>>

\* WmsGui.on_b1_down
OnB1Down ==
    /\ button # "none"
    /\ SetBoard(button_down(Board, ButtonNamed(button), listener))
    /\ UNCHANGED <<listenerVars, channelVars, guiVars, warnVars, traceVars, writing>>

\* on_b1_up that leaves the GPIOD check box alone
OnB1Up_KeepsGpiod ==
    /\ button # "none"
    /\ gpiod' = gpiod
    /\ SetBoard(button_up(Board, ButtonNamed(button), listener))
    /\ UNCHANGED <<listenerVars, channelVars, warnVars, traceVars, writing>>
    /\ UNCHANGED <<listener, dialing, timer, stopping, button, connecting, usart3, serial, idr>>

\* WmsGui.on_b1_up
OnB1Up ==
    /\ button # "none"
    /\ gpiod' = IF ButtonNamed(button).up = "reset " THEN FALSE ELSE gpiod
    /\ SetBoard(button_up(Board, ButtonNamed(button), listener))
    /\ UNCHANGED <<listenerVars, channelVars, warnVars, traceVars, writing>>
    /\ UNCHANGED <<listener, dialing, timer, stopping, button, connecting, usart3, serial, idr>>

\* on_message that runs the resync pass on every idr event
OnMessage_ResyncsEveryIdr ==
    /\ msgq # <<>>
    /\ msgq' = Tail(msgq)
    /\ LET tag   == Head(msgq).tag
           value == Head(msgq).value
       IN  /\ gpiod' = IF tag = "gpiod_enabled" THEN Bit(value, 3) = 1 ELSE gpiod
           /\ usart3' = IF tag = "usart3_enabled" THEN Bit(value, 18) = 1 ELSE usart3
           /\ idr' = IF tag = "idr" THEN value ELSE idr
           /\ connecting' = IF tag = "idr" THEN FALSE ELSE connecting
           /\ SetBoard(CASE tag = "idr" -> Resync(Board, value, listener)
                          [] tag = "pin_low"  -> update_device(Board, value, 0, listener)
                          [] tag = "pin_high" -> update_device(Board, value, 1, listener)
                          [] OTHER -> Board)
    /\ UNCHANGED <<listenerVars, afters, warnVars, traceVars, writing>>
    /\ UNCHANGED <<listener, dialing, timer, stopping, button, serial>>

\* WmsGui.on_message for the event at the head of the Tk event queue (the
\* labels mode, sr and cr1 only display the value and are not part of the state)
OnMessage ==
    /\ msgq # <<>>
    /\ msgq' = Tail(msgq)
    /\ LET tag   == Head(msgq).tag
           value == Head(msgq).value
       IN  /\ gpiod' = IF tag = "gpiod_enabled" THEN Bit(value, 3) = 1 ELSE gpiod
           /\ usart3' = IF tag = "usart3_enabled" THEN Bit(value, 18) = 1 ELSE usart3
           /\ idr' = IF tag = "idr" THEN value ELSE idr
           /\ connecting' = IF tag = "idr" THEN FALSE ELSE connecting
           /\ SetBoard(CASE tag = "idr" /\ connecting -> Resync(Board, value, listener)
                          [] tag = "pin_low"  -> update_device(Board, value, 0, listener)
                          [] tag = "pin_high" -> update_device(Board, value, 1, listener)
                          [] OTHER -> Board)
    /\ UNCHANGED <<listenerVars, afters, warnVars, traceVars, writing>>
    /\ UNCHANGED <<listener, dialing, timer, stopping, button, serial>>

\* WmsGui.on_connect: the Connect button, shown until a connection is made
OnConnect ==
    /\ ~listener /\ ~dialing /\ ~stopping
    /\ do_warning("Connecting to QEMU diagnostics...")
    /\ warn_age' = 0
    /\ dialing' = TRUE
    /\ wrote' = <<>>
    /\ UNCHANGED <<listenerVars, channelVars, boardVars, traceVars, writing>>
    /\ UNCHANGED <<listener, timer, stopping, button, connecting, gpiod, usart3, serial, idr>>

\* do_connect whose QEmuListener.__init__ writes 'listen ' before 'noecho '
DoConnect_ListenFirst ==
    /\ dialing
    /\ dialing' = FALSE
    /\ listener' = TRUE
    /\ recv_buffer' = <<>>
    /\ lpc' = "listen"
    /\ wrote' = <<"listen ", "noecho ">>
    /\ Len(afters) < MaxAfters
    /\ Warning("Connected to QEMU")
    /\ timer' = TRUE
    /\ UNCHANGED <<replies, msgq, warnVars, boardVars, traceVars, writing>>
    /\ UNCHANGED <<stopping, button, connecting, gpiod, usart3, serial, idr>>

\* WmsGui.do_connect when QEmuListener(...) succeeds: the thread starts and
\* __init__ writes 'noecho ' and 'listen '
DoConnect ==
    /\ dialing
    /\ dialing' = FALSE
    /\ listener' = TRUE
    /\ recv_buffer' = <<>>
    /\ lpc' = "listen"
    /\ wrote' = <<"noecho ", "listen ">>
    /\ Len(afters) < MaxAfters
    /\ Warning("Connected to QEMU")
    /\ timer' = TRUE
    /\ UNCHANGED <<replies, msgq, warnVars, boardVars, traceVars, writing>>
    /\ UNCHANGED <<stopping, button, connecting, gpiod, usart3, serial, idr>>

\* WmsGui.do_connect when QEmuListener(...) raises WmsError and the user
\* answers OK to the dialog
DoConnectFails ==
    /\ dialing
    /\ dialing' = FALSE
    /\ do_warning("Cannot connect to QEMU")
    /\ warn_age' = 0
    /\ wrote' = <<>>
    /\ UNCHANGED <<listenerVars, channelVars, boardVars, traceVars, writing>>
    /\ UNCHANGED <<listener, timer, stopping, button, connecting, gpiod, usart3, serial, idr>>

\* do_query_qemu that does not look at the check boxes
do_query_qemu_Always(b) ==
    Write(Write(Write(Write(b, "D0? "), "D4? "), "U0? "), "U3? ")

\* WmsGui.do_query_qemu
do_query_qemu(b) ==
    LET d == IF gpiod THEN Write(Write(b, "D0? "), "D4? ") ELSE b
    IN  IF usart3 THEN Write(Write(d, "U0? "), "U3? ") ELSE d

\* WmsGui.on_timer_running (do_poll_serial changes nothing of this state)
OnTimerRunning ==
    /\ timer
    /\ LET q == animate(do_query_qemu(Board))
           a == IF listener THEN Write(q, "M40023830? ") ELSE q
       IN  SetBoard(IF listener /\ serial THEN Write(a, "M40023840? ") ELSE a)
    /\ timer' = ~stopping
    /\ UNCHANGED <<listenerVars, channelVars, warn_field, warn_ticks, traceVars, writing>>
    /\ UNCHANGED <<listener, dialing, stopping, button, connecting, gpiod, usart3, serial, idr>>

\* WmsGui.on_timer_running when its k-th write raises (a socket error of
\* socket.send): catch() shows the error and the handler ends there, before
\* animate when the write is one of do_query_qemu, after it otherwise
OnTimerRunningFails ==
    /\ timer /\ listener
    /\ LET q    == do_query_qemu(Board)
           a    == Write(animate(q), "M40023830? ")
           full == IF serial THEN Write(a, "M40023840? ") ELSE a
       IN  \E k \in 1..Len(full.out) :
               SetBoard([(IF k > Len(q.out) THEN animate(Board) ELSE Board)
                            EXCEPT !.out = SubSeq(full.out, 1, k - 1)])
    /\ timer' = FALSE
    /\ UNCHANGED <<listenerVars, channelVars, warnVars, traceVars, writing>>
    /\ UNCHANGED <<listener, dialing, stopping, button, connecting, gpiod, usart3, serial, idr>>

\* WmsGui.close: the sockets are closed and root.destroy() discards the
\* scheduled calls and the queued events
Close ==
    /\ ~stopping
    /\ stopping' = TRUE
    /\ timer' = FALSE
    /\ dialing' = FALSE
    /\ msgq' = <<>>
    /\ afters' = <<>>
    /\ wrote' = <<>>
    /\ UNCHANGED <<listenerVars, warnVars, boardVars, traceVars, writing>>
    /\ UNCHANGED <<listener, button, connecting, gpiod, usart3, serial, idr>>

\* WmsGui.on_halt, the Halt button shown once connected: root.destroy()
\* discards the scheduled calls and the queued events
OnHalt ==
    /\ listener /\ ~stopping
    /\ wrote' = <<"halt ">>
    /\ stopping' = TRUE
    /\ timer' = FALSE
    /\ dialing' = FALSE
    /\ msgq' = <<>>
    /\ afters' = <<>>
    /\ UNCHANGED <<listenerVars, warnVars, boardVars, traceVars, writing>>
    /\ UNCHANGED <<listener, button, connecting, gpiod, usart3, serial, idr>>

----------------------------------------------------------------------------
(* The listener thread when the connection fails or is closed *)

\* listen whose handler of OSError does not leave the loop
ListenError_StaysInLoop ==
    /\ ~stopping
    /\ lpc = "listen" /\ replies = <<>>
    /\ Len(afters) < MaxAfters
    /\ Warning("Warning: QEMU connection closed")
    /\ wrote' = <<>>
    /\ UNCHANGED <<listenerVars, msgq, guiVars, warnVars, boardVars, traceVars, writing>>

\* self.socket.recv raises an OSError other than socket.timeout: read lets it
\* pass and listen reports it and breaks
ListenError ==
    /\ ~stopping
    /\ lpc = "listen" /\ replies = <<>>
    /\ Len(afters) < MaxAfters
    /\ Warning("Warning: QEMU connection closed")
    /\ lpc' = "exited"
    /\ wrote' = <<>>
    /\ UNCHANGED <<recv_buffer, replies, msgq, guiVars, warnVars, boardVars, traceVars, writing>>

\* the outcomes of self.read() on the socket that close() has closed: select
\* on the closed socket raises ValueError, or recv raises OSError, and the
\* gui.warning that reports either raises in the destroyed root, which ends
\* the thread ("crashed"); or the select that was waiting when the socket was
\* closed goes on waiting ("blocked")
ClosedReadOutcomes == {"crashed", "blocked"}

\* self.read() after WmsGui.close
ClosedRead ==
    /\ stopping
    /\ lpc = "listen" /\ replies = <<>>
    /\ \E outcome \in ClosedReadOutcomes : lpc' = outcome
    /\ wrote' = <<>>
    /\ UNCHANGED <<recv_buffer, replies, channelVars, guiVars, warnVars, boardVars, traceVars, writing>>

\* one pass of the for loop after WmsGui.close: gui.event and gui.warning
\* raise in the destroyed root, as the decoding errors do
ClosedDispatch ==
    /\ stopping
    /\ lpc = "listen" /\ replies # <<>>
    /\ IF Decode(Head(replies)).kind = "none"
       THEN lpc' = lpc /\ replies' = Tail(replies)
       ELSE lpc' = "crashed" /\ replies' = <<>>
    /\ wrote' = <<>>
    /\ UNCHANGED <<recv_buffer, channelVars, guiVars, warnVars, boardVars, traceVars, writing>>

----------------------------------------------------------------------------
(* One call of write: QEmuListener.write and QEmuSerial.write *)

\* write(message) is called on the diagnostic connection or the serial one
WriteCall(conn, message) ==
    /\ writing.pc # "loop"
    /\ IF conn = "listener" THEN listener ELSE serial
    /\ writing' = [pc |-> "loop", conn |-> conn, message |-> message, total |-> 0]
    /\ wrote' = <<>>
    /\ UNCHANGED <<listenerVars, channelVars, guiVars, warnVars, boardVars, traceVars>>

\* while total < len(message) is false: write returns
WriteReturns ==
    /\ writing.pc = "loop"
    /\ writing.total >= Len(writing.message)
    /\ writing' = [writing EXCEPT !.pc = "returned"]
    /\ wrote' = <<>>
    /\ UNCHANGED <<listenerVars, channelVars, guiVars, warnVars, boardVars, traceVars>>

\* one pass of the loop in which socket.send accepts sent bytes, sent > 0
WriteSend ==
    /\ writing.pc = "loop"
    /\ writing.total < Len(writing.message)
    /\ \E sent \in 1..(Len(writing.message) - writing.total) :
           writing' = [writing EXCEPT !.total = @ + sent]
    /\ wrote' = <<>>
    /\ UNCHANGED <<listenerVars, channelVars, guiVars, warnVars, boardVars, traceVars>>

\* one pass of the loop in which socket.send returns 0: QEmuListener.write
\* warns and adds 0 to total; QEmuSerial.write raises UserWarning, which
\* catch() turns into a warning
WriteSendsNothing ==
    /\ writing.pc = "loop"
    /\ writing.total < Len(writing.message)
    /\ Len(afters) < MaxAfters
    /\ IF writing.conn = "listener"
       THEN Warning("Warning: QEMU connection send error") /\ UNCHANGED writing
       ELSE Warning("Warning: QEMU usart send error")
            /\ writing' = [writing EXCEPT !.pc = "raised"]
    /\ wrote' = <<>>
    /\ UNCHANGED <<listenerVars, msgq, guiVars, warnVars, boardVars, traceVars>>

----------------------------------------------------------------------------
(* The framing layer on its own: the device delivers any bytes, cut into    *)
(* reads in any way                                                         *)

FramerBytes == {"a", "b", " ", "0x1C", "0xFF"}

\* self.socket.recv(15) returns between 1 and 15 bytes of an open connection
RecvSize == 15

Chunks(n) == UNION {[1..k -> FramerBytes] : k \in 1..n}

FramerRead ==
    \E chunk \in Chunks(IF MaxWire - Len(rx) < RecvSize THEN MaxWire - Len(rx) ELSE RecvSize) :
        /\ ListenRead(chunk)
        /\ rx' = rx \o chunk
        /\ got' = got \o ReadReplies(ReadResult(recv_buffer, chunk))

NextFramer ==
    \/ OnConnect
    \/ DoConnect
    \/ DoWarning
    \/ FramerRead
    \/ ListenTimeout
    \/ ListenDispatch

SpecFramer == Init /\ [][NextFramer]_vars

----------------------------------------------------------------------------
(* The listener loop with its consumer: the device sends whole replies      *)

\* what one recv can deliver: one reply, or two, each ended by a space
ChunksOf(first, second) ==
    {c \in {r \o <<" ">> : r \in first}
            \cup {r \o <<" ">> \o f \o <<" ">> : r \in first, f \in second} :
        Len(c) <= RecvSize}

ListenReplies ==
    {<<"-", "D">>, <<"+", "D", "z">>, <<"-", "D", "e">>, <<"+", "D", "e">>,
     <<"=", "d", "4", "?", "/", "z">>, <<"=", "d", "4", "?", "/", "8">>,
     <<"=", "z", "z", "?", "/", "8">>, <<"=", "d", "4", "?", "8">>,
     <<"?", "D">>, <<"D">>}

\* a reply that may follow another one in the same read
Followers == {<<"+", "D", "e">>, <<"?", "D">>}

DeviceSends ==
    \E chunk \in ChunksOf(ListenReplies, Followers) :
        ListenRead(chunk) /\ UNCHANGED <<traceVars, writing>>

NextListen ==
    \/ OnConnect
    \/ DoConnect
    \/ DoConnectFails
    \/ DoWarning
    \/ OnMessage
    \/ DeviceSends
    \/ ListenTimeout
    \/ ListenDispatch

SpecListen == Init /\ [][NextListen]_vars

----------------------------------------------------------------------------
(* Decoding on its own: the listener has read one reply of a large family,  *)
(* decodes it, and the main loop handles what it emits                      *)

SeqsUpTo(S, n) == UNION {[1..k -> S] : k \in 0..n}

PinChars == {HexDigits[i] : i \in 1..Len(HexDigits)} \cup {"A", "F", "D", "z"}

\* replies that begin with - or +, with up to two more characters
PinReplies ==
    {<<sign>> \o body : sign \in {"-", "+"}, body \in SeqsUpTo(PinChars, 2)}

MemKeys ==
    (DOMAIN REPLY_MAP) \cup {<<"=">>, <<"=", "z", "z">>, <<"=", "D", "4">>}

MemValues ==
    {<<>>, <<"0">>, <<"8">>, <<"z">>, <<"-", "8">>, <<"0", "1">>, <<"0", "0", "0", "f">>,
     <<"4", "0", "0", "2">>, <<"2", "0", "2", "3">>, <<"4", "0", "0", "0", "0">>, <<"f", "F">>,
     <<"8", "z">>}

\* replies that begin with =, with the separator "?/", only "?", or neither
MemReplies ==
    {key \o sep \o value :
        key \in MemKeys, sep \in {<<"?", "/">>, <<"?">>, <<>>}, value \in MemValues}

DecodeReplies == PinReplies \cup MemReplies \cup {<<"?", "D">>, <<"D">>}

\* the state once do_connect (after do_connect_serial when withSerial) has run
\* and its warning is shown, with the reply queue of the listener and the event
\* queue given
ConnectedAs(pending, events, withSerial) ==
    /\ recv_buffer = <<>>
    /\ lpc = "listen"
    /\ replies = pending
    /\ msgq = events
    /\ afters = <<>>
    /\ listener = TRUE
    /\ dialing = FALSE
    /\ timer = TRUE
    /\ stopping = FALSE
    /\ button = "none"
    /\ connecting = TRUE
    /\ warn_field = "Connected to QEMU"
    /\ warn_ticks = POLL
    /\ gpiod = FALSE
    /\ usart3 = FALSE
    /\ serial = withSerial
    /\ idr = 0
    /\ latch = NewBoard.latch
    /\ latched = NewBoard.latched
    /\ sseg = NewBoard.sseg
    /\ motor = NewBoard.motor
    /\ sprite = NewBoard.sprite
    /\ direction = NewBoard.direction
    /\ wrote = <<>>
    /\ rx = <<>>
    /\ got = <<>>
    /\ warn_age = 0
    /\ writing = NoWrite

Connected(pending, events) == ConnectedAs(pending, events, FALSE)

\* one read has returned a single reply
InitDecode == \E r \in DecodeReplies : Connected(<<r>>, <<>>)

NextDecode ==
    \/ ListenDispatch
    \/ OnMessage
    \/ DoWarning

SpecDecode == InitDecode /\ [][NextDecode]_vars

----------------------------------------------------------------------------
(* The board: buttons, pin events and idr replies, with the poll timer      *)

\* idr replies '=d4?/xxxx': bit 14 (latch) and bit 13, bits 0 and 1 (door, PS1)
BoardIdrReplies ==
    {<<"=", "d", "4", "?", "/", d1, "0", "0", d4>> : d1 \in {"2", "6"}, d4 \in {"0", "3"}}

\* the idr replies, pin 14 (latch) low and high, and pin 9 (a segment) high
BoardReplies ==
    BoardIdrReplies \cup {<<"-", "D", "e">>, <<"+", "D", "e">>, <<"+", "D", "9">>}

\* the buttons the pointer visits: one of each style, and a second latch button
BoardButtons == {"reset", "door", "PS1", "PS2", "motor"}

BoardSends ==
    \E chunk \in ChunksOf(BoardReplies, {}) :
        ListenRead(chunk) /\ UNCHANGED <<traceVars, writing>>

Next ==
    \/ OnConnect
    \/ DoConnect
    \/ DoWarning
    \/ \E name \in BoardButtons \cup {"none"} : OnMove(name)
    \/ OnB1Down
    \/ OnB1Up
    \/ BoardSends
    \/ ListenDispatch
    \/ OnMessage

Spec == Init /\ [][Next]_vars

----------------------------------------------------------------------------
(* The resync pass on its own: the first idr event of a fresh connection,   *)
(* for every value of the 16-bit register                                   *)

IdrValues == 0..65535

InitResync == \E value \in IdrValues : Connected(<<>>, <<[tag |-> "idr", value |-> value]>>)

NextResync ==
    \/ OnMessage
    \/ \E name \in {"door"} : OnMove(name)
    \/ OnB1Down

SpecResync == InitResync /\ [][NextResync]_vars

----------------------------------------------------------------------------
(* The poll timer and the warning field *)

\* an invalid-command echo, the motor pin high, and GPIOD enabled
PollReplies ==
    {<<"?", "D">>, <<"+", "D", "c">>,
     <<"=", "m", "4", "0", "0", "2", "3", "8", "3", "0", "?", "/", "8">>}

PollSends ==
    \E chunk \in ChunksOf(PollReplies, {}) :
        ListenRead(chunk) /\ UNCHANGED <<traceVars, writing>>

\* a tick of the timer; warn_age counts the ticks up to MaxTicks
PollTick ==
    /\ OnTimerRunning
    /\ warn_age' = IF warn_age >= 0 /\ warn_age < MaxTicks THEN warn_age + 1 ELSE warn_age

NextPoll ==
    \/ OnConnect
    \/ DoConnect
    \/ DoConnectFails
    \/ DoWarning
    \/ PollSends
    \/ ListenDispatch
    \/ OnMessage
    \/ PollTick

SpecPoll == Init /\ [][NextPoll]_vars

----------------------------------------------------------------------------
(* The idr events of one connection: the device answers the D4? queries     *)

\* idr replies '=d4?/x00x': bit 14 (latch) clear or set, bits 0 and 1 (door, PS1)
IdrReplies ==
    {<<"=", "d", "4", "?", "/", d1, "0", "0", d4>> :
        d1 \in {"2", "6"}, d4 \in {"0", "1", "2", "3"}}

IdrSends ==
    \E chunk \in ChunksOf(IdrReplies, {}) :
        ListenRead(chunk) /\ UNCHANGED <<traceVars, writing>>

NextIdr ==
    \/ OnConnect
    \/ DoConnect
    \/ DoWarning
    \/ IdrSends
    \/ ListenDispatch
    \/ OnMessage

SpecIdr == Init /\ [][NextIdr]_vars

----------------------------------------------------------------------------
(* Writing on its own: calls of write on an established connection          *)

\* messages the handlers write to the diagnostic connection
ListenerMessages ==
    {<<"n", "o", "e", "c", "h", "o", " ">>, <<"D", "4", "?", " ">>,
     <<"D", "0", "L", "1", " ">>, <<"r", "e", "s", "e", "t", " ">>,
     <<"M", "4", "0", "0", "2", "3", "8", "3", "0", "?", " ">>}

\* event.char of a key typed in the serial window
SerialMessages == {<<>>, <<"a">>, <<"\r">>}

InitSend == \E withSerial \in BOOLEAN : ConnectedAs(<<>>, <<>>, withSerial)

\* the handlers run on the Tk main loop: no scheduled call runs inside write
NextSend ==
    \/ \E message \in ListenerMessages : WriteCall("listener", message)
    \/ \E message \in SerialMessages : WriteCall("serial", message)
    \/ WriteReturns
    \/ WriteSend
    \/ WriteSendsNothing
    \/ (writing.pc # "loop" /\ DoWarning)

SpecSend == InitSend /\ [][NextSend]_vars

----------------------------------------------------------------------------
(* The life of a connection: the poll timer, a failing write, a failing     *)
(* receive, and the close of the window                                     *)

LifeSends ==
    \E chunk \in ChunksOf(PollReplies, {}) :
        ~stopping /\ ListenRead(chunk) /\ UNCHANGED <<traceVars, writing>>

LifeTick == OnTimerRunning /\ UNCHANGED warn_age

NextLife ==
    \/ OnConnect
    \/ DoConnect
    \/ DoConnectFails
    \/ DoWarning
    \/ LifeSends
    \/ (~stopping /\ ListenDispatch)
    \/ OnMessage
    \/ LifeTick
    \/ OnTimerRunningFails
    \/ ListenError
    \/ Close
    \/ ClosedRead
    \/ ClosedDispatch

\* the listener thread is scheduled while it has a step to take
SpecLife == Init /\ [][NextLife]_vars /\ WF_vars(ClosedRead) /\ WF_vars(ClosedDispatch)

----------------------------------------------------------------------------
(* The order of delivery: the device sends each of four replies at most once *)

OrderFirst == {<<"?", "D">>, <<"+", "D", "9">>}

OrderSecond == {<<"+", "D", "a">>, <<"=", "z", "z", "?", "/", "8">>}

OrderSends ==
    \E chunk \in ChunksOf(OrderFirst \cup OrderSecond, OrderFirst \cup OrderSecond) :
        LET tokens == ReadReplies(ReadResult(recv_buffer, chunk))
        IN  /\ \A i \in 1..Len(tokens) :
                   /\ \A j \in 1..Len(got) : got[j] # tokens[i]
                   /\ \A j \in 1..Len(tokens) : tokens[j] = tokens[i] => j = i
            /\ ListenRead(chunk)
            /\ rx' = rx \o chunk
            /\ got' = got \o tokens

\* the Tk main loop serves its queued events before its timers
NextOrder ==
    \/ OnConnect
    \/ DoConnect
    \/ (msgq = <<>> /\ DoWarning)
    \/ OrderSends
    \/ ListenDispatch
    \/ OnMessage

SpecOrder == Init /\ [][NextOrder]_vars

----------------------------------------------------------------------------
(* The register queries: the enable replies, the reset button, the poll     *)
(* timer and the Halt button, on a connection with or without a serial port *)

\* RCC_AHB1ENR with GPIOD on (bit 3) and off, RCC_APB1ENR with USART3 on
\* (bit 18) and off
QueryReplies ==
    {<<"=", "m", "4", "0", "0", "2", "3", "8", "3", "0", "?", "/", "8">>,
     <<"=", "m", "4", "0", "0", "2", "3", "8", "3", "0", "?", "/", "0">>,
     <<"=", "m", "4", "0", "0", "2", "3", "8", "4", "0", "?", "/", "4", "0", "0", "0", "0">>,
     <<"=", "m", "4", "0", "0", "2", "3", "8", "4", "0", "?", "/", "0">>}

QuerySends ==
    \E chunk \in {r \o <<" ">> : r \in QueryReplies} :
        ListenRead(chunk) /\ UNCHANGED <<traceVars, writing>>

\* the program as started, or connected by Connect+Serial
InitQuery == Init \/ ConnectedAs(<<>>, <<>>, TRUE)

NextQuery ==
    \/ OnConnect
    \/ DoConnect
    \/ DoWarning
    \/ QuerySends
    \/ (~stopping /\ ListenDispatch)
    \/ ClosedDispatch
    \/ OnMessage
    \/ LifeTick
    \/ \E name \in {"reset", "none"} : ~stopping /\ OnMove(name)
    \/ (~stopping /\ OnB1Down)
    \/ (~stopping /\ OnB1Up)
    \/ OnHalt

SpecQuery == InitQuery /\ [][NextQuery]_vars

----------------------------------------------------------------------------
(* Pin events on their own: the device reports any pin going high or low    *)

\* the replies '+Dx' and '-Dx' for the sixteen pins
PinEventReplies ==
    {<<sign, "D", HexDigits[i]>> : sign \in {"-", "+"}, i \in 1..Len(HexDigits)}

PinSends ==
    \E chunk \in {r \o <<" ">> : r \in PinEventReplies} :
        ListenRead(chunk) /\ UNCHANGED <<traceVars, writing>>

InitPins == Connected(<<>>, <<>>)

NextPins ==
    \/ PinSends
    \/ ListenDispatch
    \/ OnMessage

SpecPins == InitPins /\ [][NextPins]_vars

----------------------------------------------------------------------------
(* Claims about the framing layer (SpecFramer) *)

\* C1: whatever way the received bytes rx were split across reads, the tokens
\* returned so far and the carry are those of one read of rx as a whole.
C1_SplitInvariant ==
    LET once == ReadResult(<<>>, rx)
    IN  got = ReadReplies(once) /\ recv_buffer = once.buffer

\* the stream without its leading escape triplets (0xFF and the 2 bytes after it)
RECURSIVE DropTriplets(_)
DropTriplets(stream) ==
    IF Len(stream) >= 3 /\ stream[1] = "0xFF"
    THEN DropTriplets(SubSeq(stream, 4, Len(stream)))
    ELSE stream

\* C2: when the received bytes begin with an escape triplet, whether it came in
\* one read or in several, the tokens returned are the tokens of the bytes after
\* the leading triplets: no byte of a triplet is in a token or in the carry.
\* (Stated for the streams whose other bytes are all ASCII.)
C2_TripletStripped ==
    LET rest  == DropTriplets(rx)
        plain == MoveTail(rest, <<>>)
    IN  (Len(rx) >= 3 /\ rx[1] = "0xFF" /\ \A i \in 1..Len(rest) : IsAscii(rest[i]))
            => (got = Split(plain.data) /\ recv_buffer = plain.buffer)

----------------------------------------------------------------------------
(* Claims about decoding (SpecDecode, SpecListen) *)

\* the digits of a hexadecimal numeral and their values
ClaimDigit(c) ==
    CASE c = "0" -> 0 [] c = "1" -> 1 [] c = "2" -> 2 [] c = "3" -> 3 [] c = "4" -> 4
      [] c = "5" -> 5 [] c = "6" -> 6 [] c = "7" -> 7 [] c = "8" -> 8 [] c = "9" -> 9
      [] c \in {"a", "A"} -> 10 [] c \in {"b", "B"} -> 11 [] c \in {"c", "C"} -> 12
      [] c \in {"d", "D"} -> 13 [] c \in {"e", "E"} -> 14 [] c \in {"f", "F"} -> 15
      [] OTHER -> -1

ClaimIsHex(text) == text # <<>> /\ \A i \in 1..Len(text) : ClaimDigit(text[i]) >= 0

RECURSIVE ClaimHexValue(_)
ClaimHexValue(text) ==
    IF text = <<>> THEN 0
    ELSE ClaimDigit(text[Len(text)]) + 16 * ClaimHexValue(SubSeq(text, 1, Len(text) - 1))

\* the reply-command table of the wire protocol
ClaimReplyKinds ==
    {<<<<"=", "m", "4", "0", "0", "2", "3", "8", "3", "0">>, "gpiod_enabled">>,
     <<<<"=", "m", "4", "0", "0", "2", "3", "8", "4", "0">>, "usart3_enabled">>,
     <<<<"=", "d", "0">>, "moder">>, <<<<"=", "d", "4">>, "idr">>,
     <<<<"=", "u", "0">>, "sr">>, <<<<"=", "u", "3">>, "cr1">>}

\* the listener decodes the reply at the head of replies in this step
DispatchStep == lpc = "listen" /\ replies # <<>> /\ replies' # replies

EmitsEvent(tag, value) ==
    msgq' = Append(msgq, [tag |-> tag, value |-> value]) /\ afters' = afters

EmitsWarning ==
    msgq' = msgq /\ Len(afters') = Len(afters) + 1 /\ SubSeq(afters', 1, Len(afters)) = afters

\* what C3 says of the reply at the head of replies; needHex: only for a value
\* that is a hexadecimal numeral
MemoryReplyDecoded(needHex) ==
    LET reply == Head(replies)
        at    == SepIndex(reply)
        key   == SubSeq(reply, 1, at - 1)
        text  == SubSeq(reply, at + 2, Len(reply))
        known == \E e \in ClaimReplyKinds : e[1] = key
    IN  IF at = 0 \/ ~known THEN EmitsWarning
        ELSE (needHex => ClaimIsHex(text)) =>
                 /\ ClaimIsHex(text)
                 /\ \E e \in ClaimReplyKinds : e[1] = key /\ EmitsEvent(e[2], ClaimHexValue(text))

\* C3 as stated: every reply that begins with '=', has the separator and a key
\* of the reply table gives exactly one Event of the table's kind whose value is
\* the hexadecimal value after the separator; an unknown key or a missing
\* separator gives a Warning and no Event.
C3_EveryMemoryReply ==
    [][(DispatchStep /\ Head(Head(replies)) = "=") => MemoryReplyDecoded(FALSE)]_vars

\* C3 amended: the same for the replies whose text after the separator is a
\* hexadecimal numeral (one or more hexadecimal digits).
C3_MemoryReply ==
    [][(DispatchStep /\ Head(Head(replies)) = "=") => MemoryReplyDecoded(TRUE)]_vars

\* the reply '=d4?/000f' has been decoded to the event idr 15
C3_Witness == msgq = <<[tag |-> "idr", value |-> 15]>>

\* what C4 says of the reply at the head of replies; needDigit: only for a reply
\* with a hexadecimal digit at offset 2
PinReplyDecoded(needDigit) ==
    LET reply == Head(replies)
        digit == Len(reply) >= 3 /\ ClaimDigit(reply[3]) >= 0
    IN  (needDigit => digit) =>
            /\ digit
            /\ EmitsEvent(IF Head(reply) = "-" THEN "pin_low" ELSE "pin_high",
                          ClaimDigit(reply[3]))

PinsInRange ==
    \A i \in 1..Len(msgq) : msgq[i].tag \in {"pin_low", "pin_high"} => msgq[i].value \in 0..15

\* C4 as stated: every reply that begins with '-' (or '+') gives exactly one
\* pin_low (pin_high) event whose value is the hexadecimal digit at offset 2, and
\* every pin event queued for the consumer carries a pin in 0..15.
C4_EveryPinReply ==
    /\ [][(DispatchStep /\ Head(Head(replies)) \in {"-", "+"}) => PinReplyDecoded(FALSE)]_vars
    /\ []PinsInRange

\* C4 amended: the same for the replies that have a hexadecimal digit at offset 2.
C4_PinReply ==
    /\ [][(DispatchStep /\ Head(Head(replies)) \in {"-", "+"}) => PinReplyDecoded(TRUE)]_vars
    /\ []PinsInRange

\* the reply '+a9' has been decoded to the event pin_high 9
C4_Witness == msgq = <<[tag |-> "pin_high", value |-> 9]>>

\* a reply the listener cannot decode: a pin reply too short for offset 2 or
\* with no hexadecimal digit there, a memory reply with no separator, an unknown
\* command or a value that is no hexadecimal numeral
Malformed(reply) ==
    \/ Head(reply) \in {"-", "+"} /\ (Len(reply) < 3 \/ ClaimDigit(reply[3]) < 0)
    \/ /\ Head(reply) = "="
       /\ (\/ SepIndex(reply) = 0
           \/ ~\E e \in ClaimReplyKinds : e[1] = SubSeq(reply, 1, SepIndex(reply) - 1)
           \/ ~ClaimIsHex(SubSeq(reply, SepIndex(reply) + 2, Len(reply))))

\* C5: decoding a malformed reply emits a Warning and leaves the listener in
\* its loop, with the rest of the read still to decode.
C5_MalformedIsWarned ==
    [][(DispatchStep /\ Malformed(Head(replies)))
           => (EmitsWarning /\ lpc' = "listen" /\ replies' = Tail(replies))]_vars

----------------------------------------------------------------------------
(* Claims about the buttons and the resync pass (Spec, SpecResync) *)

\* on_message handles the event pin_low 14 in this step
Pin14LowStep ==
    msgq # <<>> /\ Head(msgq) = [tag |-> "pin_low", value |-> 14] /\ OnMessage

Count(seq, x) == Cardinality({i \in 1..Len(seq) : seq[i] = x})

\* the steps of C6 for the latch button b
LatchSteps(b) ==
    /\ (listener /\ button = b.name /\ latch /\ ~latched[b.pin] /\ OnB1Down)
           => (latched'[b.pin] /\ latch' /\ wrote' = <<b.down>>)
    /\ (button = b.name /\ latch /\ latched[b.pin] /\ (OnB1Down \/ OnB1Up))
           => (latched'[b.pin] /\ latch' /\ wrote' = <<>>)
    /\ (listener /\ latch /\ latched[b.pin] /\ Pin14LowStep)
           => (~latched'[b.pin] /\ ~latch' /\ Count(wrote', b.up) = 1)

\* C6: with the latch enabled, pressing a Latch-style button that is not
\* latched latches it and sends its down command once; while it is latched and
\* the latch stays enabled every press and release of it changes nothing and
\* sends nothing; when pin 14 goes low it is unlatched and its up command is sent.
C6_LatchSequence ==
    [][\A i \in 1..Len(Buttons) : Buttons[i].style = "latch" => LatchSteps(Buttons[i])]_vars

\* PS1 has just been pressed with the latch enabled
C6_Witness == latch /\ latched[1] /\ button = "PS1" /\ wrote = <<"D0L1 ">>

\* C7: on the Door button, a press while closed opens it and sends the down
\* command, the release that follows is a no-op, the next press only clears
\* the flag, and the release that follows sends the up command: one command
\* for each press/release pair, down for the odd pairs and up for the even ones.
C7_DoorSequence ==
    [][button = "door" /\ listener =>
          /\ (~latched[0] /\ OnB1Down) => (latched'[0] /\ wrote' = <<"D0L0 ">>)
          /\ (latched[0] /\ OnB1Up) => (latched'[0] /\ wrote' = <<>>)
          /\ (latched[0] /\ OnB1Down) => (~latched'[0] /\ wrote' = <<>>)
          /\ (~latched[0] /\ OnB1Up) => (~latched'[0] /\ wrote' = <<"D0d0 ">>)]_vars

\* the Door button has just been released while closed
C7_Witness == listener /\ button = "door" /\ ~latched[0] /\ wrote = <<"D0d0 ">>

\* on_message runs the resync pass in this step, and idr' is the value it handles
ResyncStep == connecting /\ ~connecting'

FreshBoard == ~latch /\ \A pin \in DOMAIN latched : ~latched[pin]

\* C8 as stated: after the resync pass of a fresh connection, the latched flag
\* of every button that has a pin is true exactly when its bit of idr is set.
C8_LatchedIsIdrBit ==
    [][(ResyncStep /\ FreshBoard) =>
          \A i \in 1..Len(Buttons) :
              Buttons[i].pin # -1 => (latched'[Buttons[i].pin] <=> Bit(idr', Buttons[i].pin) = 1)]_vars

\* C8 amended: after the resync pass of a fresh connection the Door's flag is
\* true exactly when bit 0 of idr is set, the flag of a Latch-style button
\* exactly when its bit and bit 14 (the latch) are both set, and the flag of
\* the Plain motor button is false.
C8_LatchedAfterResync ==
    [][(ResyncStep /\ FreshBoard) =>
          \A i \in 1..Len(Buttons) :
              Buttons[i].pin # -1 =>
                  (latched'[Buttons[i].pin] <=>
                      CASE Buttons[i].style = "door"  -> Bit(idr', 0) = 1
                        [] Buttons[i].style = "latch" -> Bit(idr', Buttons[i].pin) = 1
                                                         /\ Bit(idr', 14) = 1
                        [] OTHER -> FALSE)]_vars

\* the resync pass has handled idr 0x6003: latch, door and PS1 are set
C8_Witness == ~connecting /\ idr = 24579 /\ latch /\ latched[0] /\ latched[1] /\ ~latched[2]

\* C9: the step that runs the resync pass writes nothing to the connection.
C9_ResyncWritesNothing == [][ResyncStep => wrote' = <<>>]_vars

\* the resync pass has synthesized the presses of door and PS1 and wrote nothing
C9_Witness ==
    /\ ~connecting /\ idr = 24579 /\ latch /\ latched[0] /\ latched[1]
    /\ msgq = <<>> /\ wrote = <<>>

----------------------------------------------------------------------------
(* Claims about the warning field (SpecPoll) *)

\* the number of poll ticks in the display time of a warning
TicksToClear == DISPLAY_WARN \div POLL

\* C10: a warning is displayed on every tick before its display time has run,
\* and has been cleared once that many ticks have run since it was set.
C10_WarningExpires ==
    warn_age >= 0 =>
        /\ warn_age < TicksToClear => warn_field # ""
        /\ warn_age >= TicksToClear => warn_field = ""

----------------------------------------------------------------------------
(* Claims about the board state and the idr events (Spec, SpecIdr) *)

\* C11: in every reachable state, while the latch is not enabled no Latch-style
\* button (PS1, PS2, PS3, cancel, accept) is latched.
C11_NoLatchNoLatched ==
    ~latch => \A i \in 1..Len(Buttons) : Buttons[i].style = "latch" => ~latched[Buttons[i].pin]

\* pin 14 has just gone low on a connected board: the five up commands were written
C11_Witness == listener /\ ~latch /\ ~latched[1] /\ Len(wrote) = 5 /\ Count(wrote, "D0d1 ") = 1

\* on_message handles an idr event in this step
IdrStep == msgq # <<>> /\ Head(msgq).tag = "idr" /\ msgq' = Tail(msgq)

\* C12: the flag connecting is set when the connection is made and cleared by
\* the first idr event, which runs the resync pass (from a fresh board the latch
\* and the direction become bits 14 and 13 of the value); once cleared it stays
\* cleared, and every later idr event sets the idr display and leaves the board
\* alone and writes nothing.
C12_ResyncOnce ==
    [][/\ (~listener /\ listener') => connecting'
       /\ ~connecting => ~connecting'
       /\ (IdrStep /\ connecting /\ FreshBoard) =>
              /\ ~connecting'
              /\ latch' = (Bit(Head(msgq).value, 14) = 1)
              /\ direction' = Bit(Head(msgq).value, 13)
       /\ (IdrStep /\ ~connecting) =>
              /\ idr' = Head(msgq).value
              /\ UNCHANGED boardVars
              /\ wrote' = <<>>]_vars

\* a later idr event with bit 14 set has been handled and the latch is still off
C12_Witness == ~connecting /\ idr = 24579 /\ ~latch /\ ~latched[0] /\ msgq = <<>>

\* C14 as stated: while connected, pressing reset sends "reset " and releasing
\* it sends nothing.
C14_ResetOnPress ==
    [][(listener /\ button = "reset") =>
          /\ OnB1Down => wrote' = <<"reset ">>
          /\ OnB1Up => wrote' = <<>>]_vars

\* C14 amended: while connected, pressing reset sends nothing and releasing it
\* sends "reset " and clears the GPIOD box.
C14_ResetOnRelease ==
    [][(listener /\ button = "reset") =>
          /\ OnB1Down => wrote' = <<>>
          /\ OnB1Up => (wrote' = <<"reset ">> /\ ~gpiod')]_vars

\* reset has just been released on a connected board
C14_Witness == listener /\ button = "reset" /\ wrote = <<"reset ">>

----------------------------------------------------------------------------
(* More claims about the framing layer and decoding (SpecFramer, SpecDecode) *)

\* the whitespace bytes
ClaimSpaceBytes == {" ", "\t", "\n", "\r"}

\* C13: after every read, whether it returned tokens or raised, the carry holds
\* no whitespace byte and is a tail of the bytes received.
C13_CarryHasNoSpace ==
    /\ \A i \in 1..Len(recv_buffer) : recv_buffer[i] \notin ClaimSpaceBytes
    /\ \E k \in 0..Len(rx) : recv_buffer = SubSeq(rx, k + 1, Len(rx))

\* the reads 'a b' have returned the token 'a' and left 'b' in the carry
C13_Witness == rx = <<"a", " ", "b">> /\ got = << <<"a">> >> /\ recv_buffer = <<"b">>

\* the lower-case letter of a letter of a reply key
ClaimLower(c) ==
    CASE c = "D" -> "d" [] c = "M" -> "m" [] c = "U" -> "u" [] OTHER -> c

\* C20: a memory reply whose key, lower-cased, is a key of the reply table and
\* whose value is a hexadecimal numeral gives the Event of that key.
C20_KeyAnyCase ==
    [][(DispatchStep /\ Head(Head(replies)) = "=") =>
          LET reply == Head(replies)
              at    == SepIndex(reply)
              key   == [i \in 1..(at - 1) |-> ClaimLower(reply[i])]
              text  == SubSeq(reply, at + 2, Len(reply))
          IN  \A e \in ClaimReplyKinds :
                  (at # 0 /\ e[1] = key /\ ClaimIsHex(text))
                      => EmitsEvent(e[2], ClaimHexValue(text))]_vars

----------------------------------------------------------------------------
(* Claims about write, the poll timer and the life of the listener          *)
(* (SpecSend, SpecLife, SpecOrder)                                          *)

\* one pass of the loop of write
WriteIteration == writing.pc = "loop" /\ (WriteSend \/ WriteSendsNothing \/ WriteReturns)

\* C15: every pass of the loop of write either ends the call or adds to the
\* bytes written, so the call ends after at most len(message) + 1 passes: a
\* zero-byte write ends the call with a send error, on the diagnostic
\* connection and on the serial one.
C15_SendTerminates ==
    [][WriteIteration => (writing'.pc # "loop" \/ writing'.total > writing.total)]_vars

\* the poll tick runs in this step
TickStep == timer /\ (OnTimerRunning \/ OnTimerRunningFails)

\* C16: a poll tick runs only while the stop flag is not set, and every tick
\* that runs schedules the next one, a tick in which a write fails included.
C16_TickReschedules == [][TickStep => (~stopping /\ timer')]_vars

\* C17: the replies decoded so far, in the order the listener produced their
\* Event or Warning, are handled in that order: one is handled (produced and
\* no longer queued) only when every one produced before it has been handled.
C17_HandledInOrder ==
    LET produced == SubSeq(got, 1, Len(got) - Len(replies))
        Queued(t) ==
            IF Decode(t).kind = "event"
            THEN \E i \in 1..Len(msgq) :
                     msgq[i] = [tag |-> Decode(t).tag, value |-> Decode(t).value]
            ELSE \E i \in 1..Len(afters) : afters[i] = Decode(t).text
    IN  \A i, j \in 1..Len(produced) :
            (i < j /\ ~Queued(produced[j])) => ~Queued(produced[i])

\* C18: when a receive fails with an I/O error the listener queues the warning
\* 'connection closed' and leaves its loop; from then on it stays out of its
\* loop, no Event and no Warning is added to the queues, and no connection is
\* dialed.
C18_ErrorEndsListener ==
    [][/\ ListenError =>
              /\ afters' = Append(afters, "Warning: QEMU connection closed")
              /\ msgq' = msgq
              /\ lpc' = "exited"
       /\ lpc = "exited" =>
              /\ lpc' = "exited"
              /\ Len(msgq') <= Len(msgq)
              /\ Len(afters') <= Len(afters)
              /\ ~dialing' /\ listener']_vars

\* the listener has left its loop and its warning is displayed
C18_Witness == lpc = "exited" /\ warn_field = "Warning: QEMU connection closed"

\* C19: once close() has set the stop flag and closed the connection, the
\* listener thread eventually is out of its loop (never started, left, or
\* ended by an error), and nothing is queued after the close.
C19_ShutdownEndsListener ==
    /\ [](stopping => <>(lpc \in {"idle", "exited", "crashed"}))
    /\ [](stopping => (msgq = <<>> /\ afters = <<>>))

----------------------------------------------------------------------------
(* Claims about pin 14, the Door and the segment mask (Spec, SpecResync,    *)
(* SpecPins)                                                                *)

\* C21: on a connected board, pin 14 going low while the latch is enabled
\* clears the flag of every Latch-style button and sends each one's up command
\* once (five commands); pin 14 going low while the latch is already off
\* sends nothing.
C21_ReleaseOnTransition ==
    [][(listener /\ Pin14LowStep) =>
          IF latch
          THEN /\ Len(wrote') = 5
               /\ \A i \in 1..Len(Buttons) :
                      Buttons[i].style = "latch" =>
                          (~latched'[Buttons[i].pin] /\ Count(wrote', Buttons[i].up) = 1)
          ELSE wrote' = <<>>]_vars

\* on_message handles a pin 14 event, high or low, in this step
Pin14Step ==
    /\ msgq # <<>>
    /\ Head(msgq).tag \in {"pin_low", "pin_high"} /\ Head(msgq).value = 14
    /\ OnMessage

\* C24: a pin 14 event leaves the Door's flag alone and sends no Door command,
\* and a press or a release of the Door has the effect (flag and command) it
\* would have with the other value of the latch.
C24_DoorIgnoresLatch ==
    [][/\ Pin14Step =>
              /\ latched'[0] = latched[0]
              /\ Count(wrote', "D0L0 ") = 0 /\ Count(wrote', "D0d0 ") = 0
       /\ (button = "door" /\ OnB1Down) =>
              LET other == button_down([Board EXCEPT !.latch = ~latch],
                                       ButtonNamed("door"), listener)
              IN  latched'[0] = other.latched[0] /\ wrote' = other.out
       /\ (button = "door" /\ OnB1Up) =>
              LET other == button_up([Board EXCEPT !.latch = ~latch],
                                     ButtonNamed("door"), listener)
              IN  latched'[0] = other.latched[0] /\ wrote' = other.out]_vars

\* the Door has just been opened while the latch is enabled
C24_Witness == listener /\ latch /\ latched[0] /\ button = "door" /\ wrote = <<"D0L0 ">>

\* C25: whatever Door presses came before it, after the resync pass the Door's
\* flag is true exactly when bit 0 of the idr value is set.
C25_DoorMatchesIdr == [][ResyncStep => (latched'[0] <=> Bit(idr', 0) = 1)]_vars

\* on_message handles a pin event in this step
PinStep ==
    msgq # <<>> /\ Head(msgq).tag \in {"pin_low", "pin_high"} /\ msgq' = Tail(msgq)

\* C27: the segment mask is in 0..15; a pin event for pin p in 8..11 makes bit
\* p - 8 of the mask the level of the event and leaves the other bits; an event
\* for another pin leaves the mask, and one for pins 0..7 or 15 leaves the
\* whole board and sends nothing; nothing else changes the mask.
C27_SegmentMask ==
    /\ [][/\ PinStep =>
                  LET pin   == Head(msgq).value
                      level == IF Head(msgq).tag = "pin_high" THEN 1 ELSE 0
                  IN  /\ pin \in 8..11 =>
                             /\ Bit(sseg', pin - 8) = level
                             /\ \A q \in (8..11) \ {pin} : Bit(sseg', q - 8) = Bit(sseg, q - 8)
                      /\ pin \notin 8..11 => sseg' = sseg
                      /\ pin \in (0..7) \cup {15} => (UNCHANGED boardVars /\ wrote' = <<>>)
          /\ sseg' # sseg => PinStep]_vars
    /\ [](sseg \in 0..15)

\* pins 9 and 11 are high, pins 8 and 10 low
C27_Witness == sseg = 10 /\ msgq = <<>> /\ replies = <<>>

----------------------------------------------------------------------------
(* Claims about the poll tick and the connection (SpecPoll, SpecQuery,      *)
(* SpecListen)                                                              *)

ClaimProbes == {"M40023830? ", "M40023840? "}

ClaimQueries == {"D0? ", "D4? ", "U0? ", "U3? "}

\* C22: in what a poll tick writes, every enable probe comes before every
\* register-read query.
C22_ProbesFirst ==
    [][(timer /\ OnTimerRunning) =>
          \A i, j \in 1..Len(wrote') :
              (wrote'[i] \in ClaimProbes /\ wrote'[j] \in ClaimQueries) => i < j]_vars

\* on_message handles an event with this tag in this step
EventStep(tag) == msgq # <<>> /\ Head(msgq).tag = tag /\ msgq' = Tail(msgq)

\* C23: "D0? " and "D4? " are written only in a step that starts with the
\* GPIOD box set, "U0? " and "U3? " only in one that starts with the USART3
\* box set; the GPIOD box changes only when a gpiod_enabled event is handled or
\* reset is released, the USART3 box only when a usart3_enabled event is handled.
C23_QueriesWhenEnabled ==
    [][/\ \A i \in 1..Len(wrote') :
              /\ wrote'[i] \in {"D0? ", "D4? "} => gpiod
              /\ wrote'[i] \in {"U0? ", "U3? "} => usart3
       /\ gpiod' # gpiod => (EventStep("gpiod_enabled") \/ (button = "reset" /\ OnB1Up))
       /\ usart3' # usart3 => EventStep("usart3_enabled")]_vars

\* a tick has run with GPIOD enabled and USART3 not
C23_Witness == gpiod /\ ~usart3 /\ wrote = <<"D0? ", "D4? ", "M40023830? ">>

\* the variables of the board, the connecting flag and the warning
OwnedVars == <<boardVars, connecting, warn_field, warn_ticks>>

\* the listener thread reads or decodes in this step
ListenerStep ==
    replies' # replies \/ recv_buffer' # recv_buffer \/ (lpc = "listen" /\ lpc' # "listen")

\* C26: a step of the listener thread leaves the board, the connecting flag and
\* the warning as they are and only adds to the two queues; every change of
\* those variables is made by a handler of the main loop.
C26_BoardOwnedByDriver ==
    [][/\ ListenerStep =>
              /\ UNCHANGED OwnedVars
              /\ Len(msgq') >= Len(msgq) /\ SubSeq(msgq', 1, Len(msgq)) = msgq
              /\ Len(afters') >= Len(afters) /\ SubSeq(afters', 1, Len(afters)) = afters
       /\ OwnedVars' # OwnedVars => (OnMessage \/ DoWarning \/ OnConnect \/ DoConnectFails)]_vars

\* the listener has queued the event of '+De' and the latch is not yet enabled
C26_Witness == lpc = "listen" /\ msgq = <<[tag |-> "pin_high", value |-> 14]>> /\ ~latch

\* C28: the step that makes the connection writes "noecho " and then
\* "listen ", and nothing is written while there is no connection.
C28_NoechoListenFirst ==
    /\ [][(~listener /\ listener') => wrote' = <<"noecho ", "listen ">>]_vars
    /\ [](~listener => wrote = <<>>)

\* the connection has just been made
C28_Witness == listener /\ timer /\ wrote = <<"noecho ", "listen ">>

\* C29: releasing reset clears the GPIOD box; the box is set again only by a
\* gpiod_enabled event whose value has bit 3 set; every tick writes the probe
\* "M40023830? " once, and a tick that starts with the box clear writes no
\* "D0? " and no "D4? ".
C29_ResetStopsQueries ==
    [][/\ (button = "reset" /\ OnB1Up) => ~gpiod'
       /\ (~gpiod /\ gpiod') =>
              (EventStep("gpiod_enabled") /\ Bit(Head(msgq).value, 3) = 1)
       /\ (timer /\ OnTimerRunning) =>
              /\ Count(wrote', "M40023830? ") = 1
              /\ ~gpiod => (Count(wrote', "D0? ") = 0 /\ Count(wrote', "D4? ") = 0)]_vars

\* after a release of reset a tick has written the probe only, and the reply
\* that enables GPIOD again waits in the queue
C29_Witness ==
    /\ button = "reset" /\ ~gpiod /\ timer /\ wrote = <<"M40023830? ">>
    /\ msgq = <<[tag |-> "gpiod_enabled", value |-> 8]>>

====
